---- MODULE Spec2Model ----
(***************************************************************************)
(* Job queue, worker and result rings of SpectralCLBridge.cpp.             *)
(*                                                                         *)
(* Every region the source runs under g_mu is one atomic action; the code  *)
(* that runs outside the mutex (the g_stop test and start_worker() in      *)
(* SCL_Submit, notify_all and join in shutdown_worker) is split into one   *)
(* action per shared read or write, so that the unsynchronised accesses    *)
(* interleave as the threads of a real build can.                          *)
(***************************************************************************)
EXTENDS Integers, Sequences, FiniteSets, TLC

(* ---- bounds of the model ---------------------------------------------- *)
\* queue and ring capacities, scaled down from 256 and 4096
kQueueMax == 2
kRingMax == 2
\* client threads calling the exported functions
NumThreads == 2
\* Submit calls that pass argument validation, over the whole run
MaxSubmits == 3
\* SCL_Shutdown calls over the whole run
MaxShutdowns == 1

\* inputs of next_pow2 tried one by one from 0 up to this (besides 2^k - 1, 2^k, 2^k + 1)
MaxSmallN == 70
\* longest input of the STFT tried with every nperseg and noverlap
MaxLen == 6

kOutFields == 12

Threads == 1..NumThreads
\* one worker thread can be spawned by each client thread that races through start_worker
Workers == 1..NumThreads
Keys == {7, 9}
BarTimes == {10, 20}
\* <<key, bar_time, input>> of the jobs a caller submits; the input names the samples
\* and the analysis parameters of the call (see JobInput)
JobKinds == {<<7, 10, "tone">>, <<7, 20, "short">>, <<9, 10, "noband">>}
\* one job of every input on one key, covering every path of compute_job
InputKinds == {<<7, 10, "tone">>, <<7, 10, "short">>, <<7, 10, "empty">>, <<7, 10, "flat">>,
               <<7, 10, "noband">>, <<7, 10, "nogpu">>}
\* the burst of the backpressure scenario: kQueueMax + 4 Submit calls back-to-back
BurstSubmits == kQueueMax + 4
\* the job of the burst: one key, one bar_time, one input
BurstKinds == {<<7, 10, "tone">>}
JobIds == 1..(IF MaxSubmits > BurstSubmits THEN MaxSubmits ELSE BurstSubmits)
\* argument shapes of SCL_Submit: <<price non-null, price_len, wave non-null, wave_len>>
SubmitArgs == {<<TRUE, 3, TRUE, 3>>, <<FALSE, 3, TRUE, 3>>, <<TRUE, 3, FALSE, 3>>,
               <<TRUE, 0, TRUE, 3>>, <<TRUE, 3, TRUE, -1>>}
\* argument shapes of the TryGet functions: <<out non-null, out_len, out_time non-null, out_seq non-null>>
QueryArgs == {<<TRUE, 12, TRUE, TRUE>>, <<FALSE, 12, TRUE, TRUE>>, <<TRUE, 11, TRUE, TRUE>>,
              <<TRUE, 12, FALSE, FALSE>>}
\* argument shapes of SCL_GetStats: <<out non-null, out_len>>
StatsArgs == {<<TRUE, 4>>, <<FALSE, 4>>, <<TRUE, 3>>}
\* idx values a caller may pass to SCL_TryGetAtIndex
Idxs == -1..kRingMax
\* measured latency of a job, in ms
Latencies == {1}

\* content of caller memory the function did not write
Untouched == "untouched"
NoJob == [key |-> 0, bar_time |-> 0, payload |-> 0, in |-> "none"]
NoEv == [op |-> "none"]

\* arguments of next_pow2: the small ones, the neighbours of every power of two, and
\* the ends of the 32-bit range
Pow2Inputs ==
  (-2..MaxSmallN) \cup {2^k + d : k \in 0..30, d \in {-1, 0, 1}}
                  \cup {2147483647, -2147483647 - 1}
\* arguments of SCL_STFT: <<x_len, fs, nperseg, noverlap, nfft>>
StftInputs ==
  {<<L, 1, p, o, 0>> : L \in 0..MaxLen, p \in -1..(MaxLen + 1), o \in -1..(MaxLen + 1)}
    \cup {<<32, fs, 8, 4, 8>> : fs \in {1, 2}}

VARIABLES
  g_jobs,            \* std::deque<Job>, head first
  g_ctx,             \* std::unordered_map<int64_t, Context>: a function on the keys present
  g_worker,          \* std::thread handle: 0 = not joinable, w = joinable handle of worker w
  g_worker_started,
  g_stop,
  wpc,               \* worker thread -> "none" | "wait" | "blocked" | "compute" | "exited"
  wjob,              \* worker thread -> the Job moved into its frame
  pc,                \* client thread -> position inside the exported function it runs
  loc,               \* client thread -> locals of that call
  terminated,        \* std::terminate() was called: the process is gone
  ev,                \* the call that returned in the last step: arguments, return value, memory written
  nsub,              \* history: Submit calls that passed validation
  nshut,             \* history: SCL_Shutdown calls begun
  shutdown_returned, \* history: SCL_Shutdown calls returned
  nextId,            \* history: jobs pushed so far (the payload tag of the last one)
  accepted,          \* history: key -> Submit calls that returned 1
  deps,              \* history: deposits in order, <<[id, key, seq, in, res]>>
  drops              \* history: job id -> times it was evicted by backpressure

vars == <<g_jobs, g_ctx, g_worker, g_worker_started, g_stop, wpc, wjob, pc, loc,
          terminated, ev, nsub, nshut, shutdown_returned, nextId, accepted, deps, drops>>

shared == <<g_jobs, g_ctx, g_worker, g_worker_started, g_stop>>
workerVars == <<wpc, wjob>>
hist == <<nsub, nshut, shutdown_returned, nextId, accepted, deps, drops>>

(* ---- data -------------------------------------------------------------- *)
NewContext == [ring |-> <<>>, seq |-> 0, jobs_ok |-> 0, jobs_drop |-> 0, last_ms |-> 0]

\* g_ctx[key] of an unordered_map: the element, default-constructed when absent
CtxAt(ctx, key) == IF key \in DOMAIN ctx THEN ctx[key] ELSE NewContext

CtxPut(ctx, key, c) == [k \in (DOMAIN ctx) \cup {key} |-> IF k = key THEN c ELSE ctx[k]]

NoLoc == [job |-> NoJob, w |-> 0, args |-> <<>>]

(* ---- compute_job ------------------------------------------------------- *)
Min(a, b) == IF a < b THEN a ELSE b
Max(a, b) == IF a > b THEN a ELSE b
Abs(a) == IF a < 0 THEN 0 - a ELSE a

RECURSIVE next_pow2_loop(_, _)
\* line 239: while (p < n && p < (1 << 30)) p <<= 1;  p never exceeds 2^30, so the
\* shift stays inside a 32-bit int
next_pow2_loop(p, n) == IF p < n /\ p < 2^30 THEN next_pow2_loop(p * 2, n) ELSE p

\* a next_pow2 that starts from 2
next_pow2_FromTwo(n) == next_pow2_loop(2, n)

\* lines 237-241
next_pow2(n) == next_pow2_loop(1, n)

\* phases are counted in quarter turns: atan2 yields -1, 0, 1 or 2, and pi is 2
kPi == 2

\* the samples and parameters behind an input name: n = min(price_len, wave_len), the
\* analysis parameters of the call, whether the compute backend answers, and for
\* price and wave the spectrum the periodogram finds in the first W samples, one
\* [pow, ph] per bin k = 1 .. nfft_eff/2 (power, and phase in quarter turns)
JobInput(in) ==
  LET peak == <<[pow |-> 2, ph |-> 1], [pow |-> 1, ph |-> 0]>>
      peak0 == <<[pow |-> 2, ph |-> 0], [pow |-> 1, ph |-> 0]>>
      zero == <<[pow |-> 0, ph |-> 0], [pow |-> 0, ph |-> 0]>>
      base == [n |-> 3, window_min |-> 2, window_max |-> 8, nfft |-> 4,
               min_period |-> 3, max_period |-> 5, gpu |-> TRUE,
               price |-> peak, wave |-> peak0]
  IN CASE in = "tone" -> base
       [] in = "short" -> [base EXCEPT !.window_min = 4]
       [] in = "empty" -> [base EXCEPT !.window_min = 0, !.window_max = 0]
       [] in = "flat" -> [base EXCEPT !.price = zero, !.wave = zero]
       [] in = "noband" -> [base EXCEPT !.min_period = 10, !.max_period = 40]
       [] in = "nogpu" -> [base EXCEPT !.gpu = FALSE]
       [] OTHER -> [base EXCEPT !.n = 0, !.window_min = 0, !.window_max = 0, !.nfft = 0,
                                !.min_period = 0, !.max_period = 0]

\* lines 835-843, 887-903: gpu_periodogram of x_len samples: fails without backend or
\* samples, else yields nfft_eff and the bins 1 .. nfft_eff/2 (f = k / nfft_eff)
gpu_periodogram(x_len, nfft, gpu, spectrum) ==
  LET nperseg == IF nfft > 0 THEN Min(nfft, x_len) ELSE x_len
      nfft_eff == next_pow2(Max(IF nfft > 0 THEN nfft ELSE nperseg, nperseg))
  IN IF ~gpu \/ x_len <= 0 \/ nperseg <= 0
       THEN [ok |-> FALSE, nfft_eff |-> 0, bins |-> <<>>]
       ELSE [ok |-> TRUE, nfft_eff |-> nfft_eff, bins |-> SubSeq(spectrum, 1, nfft_eff \div 2)]

RECURSIVE ScanLast(_, _, _, _, _)
\* a scan that also replaces the best bin by a later bin of equal power
ScanLast(bins, cand, k, best_pow, best_k) ==
  IF k > Len(bins) THEN best_k
  ELSE IF k \in cand /\ bins[k].pow >= best_pow
         THEN ScanLast(bins, cand, k + 1, bins[k].pow, k)
         ELSE ScanLast(bins, cand, k + 1, best_pow, best_k)

RECURSIVE Scan(_, _, _, _, _)
\* lines 1046-1052: the loop from bin k on, taking a candidate bin when its power
\* is greater than best_pow
Scan(bins, cand, k, best_pow, best_k) ==
  IF k > Len(bins) THEN best_k
  ELSE IF k \in cand /\ bins[k].pow > best_pow
         THEN Scan(bins, cand, k + 1, bins[k].pow, k)
         ELSE Scan(bins, cand, k + 1, best_pow, best_k)

\* a scan in which the last bin of greatest power wins
BestBin_LastWins(bins, cand) == Max(0, ScanLast(bins, cand, 1, 0 - 1, 0 - 1))

\* lines 1041-1053: the scan starts at bin 1 with best_pow = -1.0 and best_k = -1 and
\* its result counts when it is > 0; 0 stands for no bin
BestBin(bins, cand) == Max(0, Scan(bins, cand, 1, 0 - 1, 0 - 1))

\* lines 1040-1074: the local period and phase and the global period of one spectrum;
\* the period of bin k is 1/f = nfft_eff / k
Peaks(pg, min_period, max_period) ==
  LET K == 1..Len(pg.bins)
      kl == BestBin(pg.bins, {k \in K : /\ pg.nfft_eff >= min_period * k
                                        /\ pg.nfft_eff <= max_period * k})
      kg == BestBin(pg.bins, {k \in K : pg.nfft_eff >= 2 * k})
  IN [per |-> IF kl > 0 THEN pg.nfft_eff \div kl ELSE 0,
      ph |-> IF kl > 0 THEN pg.bins[kl].ph ELSE 0,
      perG |-> IF kg > 0 THEN pg.nfft_eff \div kg ELSE 0,
      k |-> kl, kG |-> kg]

RECURSIVE WrapPhase(_)
\* line 1080: while (phase_diff > kPi) phase_diff = fabs(phase_diff - 2 kPi)
WrapPhase(d) == IF d > kPi THEN WrapPhase(Abs(d - 2 * kPi)) ELSE d

RECURSIVE WrapPasses(_)
\* line 1080: the number of times the body of the loop runs
WrapPasses(d) == IF d > kPi THEN 1 + WrapPasses(Abs(d - 2 * kPi)) ELSE 0

\* a phase difference that is not folded
PhaseDiff_NoFold(phP, phW) == Abs(phP - phW)

\* lines 1079-1080: phase_diff after the loop
PhaseDiff(phP, phW) == WrapPhase(Abs(phP - phW))

\* the 12 fields with syncPct computed whether or not both periods were found
OutFields_NoPeriodTest(P, W) ==
  LET phase_diff == PhaseDiff(P.ph, W.ph)
      syncPct == 100 - (100 * phase_diff) \div kPi
      sync == Max(0, Min(100, syncPct))
      progP == IF P.ph >= 0 THEN (P.ph * 100) \div (2 * kPi) ELSE 0
      progW == IF W.ph >= 0 THEN (W.ph * 100) \div (2 * kPi) ELSE 0
  IN <<P.per, P.perG, W.per, W.perG, P.per \div 2, sync, 100 - sync,
       Max(0, progP), Max(0, progW), Abs(P.per - W.per), P.ph, 0>>

\* lines 1076-1104: the 12 fields from the peaks of price and wave
OutFields(P, W) ==
  LET phase_diff == PhaseDiff(P.ph, W.ph)
      syncPct == IF P.per > 0 /\ W.per > 0 THEN 100 - (100 * phase_diff) \div kPi ELSE 0
      sync == Max(0, Min(100, syncPct))
      progP == IF P.ph >= 0 THEN (P.ph * 100) \div (2 * kPi) ELSE 0
      progW == IF W.ph >= 0 THEN (W.ph * 100) \div (2 * kPi) ELSE 0
  IN <<P.per, P.perG, W.per, W.perG, P.per \div 2, sync, 100 - sync,
       Max(0, progP), Max(0, progW), Abs(P.per - W.per), P.ph, 0>>

\* lines 1019-1021: the Result as compute_job leaves it when it returns early
ZeroResult(job) == [time |-> job.bar_time, seq |-> 0, out |-> [i \in 1..kOutFields |-> 0]]

\* a compute_job without the test of W against window_min
compute_job_NoWindowMin(job) ==
  LET in == JobInput(job.in)
      W == Min(in.window_max, in.n)
      pP == gpu_periodogram(W, in.nfft, in.gpu, in.price)
      pW == gpu_periodogram(W, in.nfft, in.gpu, in.wave)
  IN IF in.n <= 0 \/ ~pP.ok \/ ~pW.ok THEN ZeroResult(job)
     ELSE [ZeroResult(job) EXCEPT !.out = OutFields(Peaks(pP, in.min_period, in.max_period),
                                                    Peaks(pW, in.min_period, in.max_period))]

\* lines 1023-1074: the peaks of price and wave that compute_job finds for the input
\* in, or ok = FALSE when it returns early
JobPeaks(in) ==
  LET W == Min(in.window_max, in.n)
      pP == gpu_periodogram(W, in.nfft, in.gpu, in.price)
      pW == gpu_periodogram(W, in.nfft, in.gpu, in.wave)
      none == [per |-> 0, ph |-> 0, perG |-> 0, k |-> 0, kG |-> 0]
  IN IF in.n <= 0 \/ W < in.window_min \/ ~pP.ok \/ ~pW.ok
       THEN [ok |-> FALSE, P |-> none, W |-> none]
       ELSE [ok |-> TRUE, P |-> Peaks(pP, in.min_period, in.max_period),
             W |-> Peaks(pW, in.min_period, in.max_period)]

\* lines 1018-1105: the Result compute_job fills in for a job whose samples and
\* parameters are in: time from the job, seq 0, and the 12 fields, all zero when it
\* returns early
compute_job_of(job, in) ==
  LET pk == JobPeaks(in)
  IN IF ~pk.ok THEN ZeroResult(job)
     ELSE [ZeroResult(job) EXCEPT !.out = OutFields(pk.P, pk.W)]

\* the names of the inputs of JobInput, "none" being the input of NoJob
InputNames == {"tone", "short", "empty", "flat", "noband", "nogpu", "none"}

\* lines 1021-1104: the 12 fields compute_job yields for each named input
JobOut == [in \in InputNames |-> compute_job_of(NoJob, JobInput(in)).out]

\* lines 1018-1105
compute_job(job) == [ZeroResult(job) EXCEPT !.out = JobOut[job.in]]

Init ==
  /\ g_jobs = <<>>
  /\ g_ctx = <<>>
  /\ g_worker = 0
  /\ g_worker_started = FALSE
  /\ g_stop = FALSE
  /\ wpc = [w \in Workers |-> "none"]
  /\ wjob = [w \in Workers |-> NoJob]
  /\ pc = [t \in Threads |-> "idle"]
  /\ loc = [t \in Threads |-> NoLoc]
  /\ terminated = FALSE
  /\ ev = NoEv
  /\ nsub = 0
  /\ nshut = 0
  /\ shutdown_returned = 0
  /\ nextId = 0
  /\ accepted = [k \in Keys |-> 0]
  /\ deps = <<>>
  /\ drops = [i \in JobIds |-> 0]

(* ---- SCL_Submit -------------------------------------------------------- *)
\* an argument test that forgets wave_len
ArgsInvalid_NoWaveLen(price, price_len, wave, wave_len) ==
  ~price \/ ~wave \/ price_len <= 0

\* line 1189: the argument test
ArgsInvalid(price, price_len, wave, wave_len) ==
  ~price \/ ~wave \/ price_len <= 0 \/ wave_len <= 0

\* a push that refuses the incoming job when the queue is full
QueuePush_DropNewest(q, job) ==
  IF Len(q) >= kQueueMax THEN q ELSE Append(q, job)

\* lines 1206-1210: the queue after the push, the oldest job evicted when full
QueuePush(q, job) ==
  IF Len(q) >= kQueueMax THEN Append(Tail(q), job) ELSE Append(q, job)

\* an eviction that forgets the jobs_drop counter
DropCount_None(ctx, q, key) == ctx

\* an eviction charged to the key of the evicted job
DropCount_EvictedKey(ctx, q, key) ==
  IF Len(q) >= kQueueMax
    THEN CtxPut(ctx, Head(q).key, [CtxAt(ctx, Head(q).key) EXCEPT !.jobs_drop = @ + 1])
    ELSE ctx

\* a drop counted one job too early
DropCount_OffByOne(ctx, q, key) ==
  IF Len(q) >= kQueueMax - 1
    THEN CtxPut(ctx, key, [CtxAt(ctx, key) EXCEPT !.jobs_drop = @ + 1])
    ELSE ctx

\* lines 1206-1209: the contexts after the push, jobs_drop bumped on the incoming key when full
DropCount(ctx, q, key) ==
  IF Len(q) >= kQueueMax
    THEN CtxPut(ctx, key, [CtxAt(ctx, key) EXCEPT !.jobs_drop = @ + 1])
    ELSE ctx

\* g_cv.notify_one(): one of the threads blocked in g_cv.wait, if any, becomes runnable
NotifyOne(p) ==
  IF \E w \in Workers : p[w] = "blocked"
    THEN {[p EXCEPT ![w] = "wait"] : w \in {x \in Workers : p[x] = "blocked"}}
    ELSE {p}

\* g_cv.notify_all()
NotifyAll(p) == [w \in Workers |-> IF p[w] = "blocked" THEN "wait" ELSE p[w]]

\* a worker_loop whose unique_lock lives until the end of the loop body
WorkerHoldsMu_Compute(p) == p = "compute"

\* lines 1109-1117: the scope of the worker's unique_lock ends before compute_job and
\* g_cv.wait releases g_mu while it blocks, so at none of its positions between two
\* steps does a worker hold g_mu
WorkerHoldsMu(p) == FALSE

\* g_mu can be locked by a client thread
MuFree == \A w \in Workers : ~WorkerHoldsMu(wpc[w])

\* g_mu can be locked by worker w
MuFreeFor(w) == \A x \in Workers \ {w} : ~WorkerHoldsMu(wpc[x])

\* lines 1188-1201: entry of SCL_Submit with a job of one of the kinds, at most max
\* of them passing the tests; g_stop is read without the mutex
Submit(t, kinds, max) ==
  /\ ~terminated
  /\ pc[t] = "idle"
  /\ \E kind \in kinds, a \in SubmitArgs :
       IF g_stop \/ ArgsInvalid(a[1], a[2], a[3], a[4])
         THEN /\ ev' = [op |-> "Submit", ret |-> 0, args |-> a]
              /\ UNCHANGED <<shared, workerVars, pc, loc, terminated, hist>>
         ELSE /\ nsub < max
              /\ nsub' = nsub + 1
              /\ loc' = [loc EXCEPT ![t] = [job |-> [key |-> kind[1], bar_time |-> kind[2], payload |-> 0,
                                                    in |-> kind[3]],
                                            w |-> 0, args |-> a]]
              /\ pc' = [pc EXCEPT ![t] = "sw_check"]
              /\ ev' = NoEv
              /\ UNCHANGED <<shared, workerVars, terminated, nshut, shutdown_returned,
                             nextId, accepted, deps, drops>>

SubmitCall(t) == Submit(t, JobKinds, MaxSubmits)

\* SCL_Submit with a job of any input, all on one key
SubmitInput(t) == Submit(t, InputKinds, MaxSubmits)

\* SCL_Submit of the burst
SubmitBurst(t) == Submit(t, BurstKinds, BurstSubmits)

\* line 1137: start_worker reads g_worker_started (no mutex)
StartCheck(t) ==
  /\ ~terminated
  /\ pc[t] = "sw_check"
  /\ pc' = [pc EXCEPT ![t] = IF g_worker_started THEN "push" ELSE "sw_spawn"]
  /\ ev' = NoEv
  /\ UNCHANGED <<shared, workerVars, loc, terminated, hist>>

\* lines 1138-1139: g_worker_started = true; the temporary std::thread(worker_loop) starts running
StartSpawn(t) ==
  /\ ~terminated
  /\ pc[t] = "sw_spawn"
  /\ \E w \in Workers :
       /\ wpc[w] = "none"
       /\ \A x \in Workers : x < w => wpc[x] # "none"
       /\ wpc' = [wpc EXCEPT ![w] = "wait"]
       /\ loc' = [loc EXCEPT ![t].w = w]
  /\ g_worker_started' = TRUE
  /\ pc' = [pc EXCEPT ![t] = "sw_joinable"]
  /\ ev' = NoEv
  /\ UNCHANGED <<g_jobs, g_ctx, g_worker, g_stop, wjob, terminated, hist>>

\* line 1139: std::thread::operator=(thread&&) calls std::terminate() when *this is joinable
StartAssignTest(t) ==
  /\ ~terminated
  /\ pc[t] = "sw_joinable"
  /\ IF g_worker # 0
       THEN terminated' = TRUE /\ pc' = pc
       ELSE terminated' = FALSE /\ pc' = [pc EXCEPT ![t] = "sw_assign"]
  /\ ev' = NoEv
  /\ UNCHANGED <<shared, workerVars, loc, hist>>

\* line 1139: operator= then takes over the handle of the temporary
StartAssign(t) ==
  /\ ~terminated
  /\ pc[t] = "sw_assign"
  /\ g_worker' = loc[t].w
  /\ pc' = [pc EXCEPT ![t] = "push"]
  /\ ev' = NoEv
  /\ UNCHANGED <<g_jobs, g_ctx, g_worker_started, g_stop, workerVars, loc, terminated, hist>>

\* lines 1205-1212: under g_mu, evict when full, push, notify_one, return 1
SubmitPush(t) ==
  /\ ~terminated
  /\ MuFree
  /\ pc[t] = "push"
  /\ LET job == [loc[t].job EXCEPT !.payload = nextId + 1]
         full == Len(g_jobs) >= kQueueMax
     IN /\ g_jobs' = QueuePush(g_jobs, job)
        /\ g_ctx' = DropCount(g_ctx, g_jobs, job.key)
        /\ nextId' = nextId + 1
        /\ drops' = IF full THEN [drops EXCEPT ![Head(g_jobs).payload] = @ + 1] ELSE drops
        /\ accepted' = [accepted EXCEPT ![job.key] = @ + 1]
        /\ ev' = [op |-> "Submit", ret |-> 1, args |-> loc[t].args]
  /\ wpc' \in NotifyOne(wpc)
  /\ pc' = [pc EXCEPT ![t] = "idle"]
  /\ loc' = [loc EXCEPT ![t] = NoLoc]
  /\ UNCHANGED <<g_worker, g_worker_started, g_stop, wjob, terminated, nsub, nshut,
                 shutdown_returned, deps>>

(* ---- worker_loop ------------------------------------------------------- *)
\* a deposit that never evicts
RingPush_NoPop(ring, res) == <<res>> \o ring

\* lines 1131-1132: pop_back when the ring is full, then push_front
RingPush(ring, res) ==
  <<res>> \o (IF Len(ring) >= kRingMax THEN SubSeq(ring, 1, Len(ring) - 1) ELSE ring)

\* a deposit that does not count the job
Deposit_NoJobsOk(c, res, ms) ==
  [ring |-> RingPush(c.ring, [res EXCEPT !.seq = c.seq + 1]),
   seq |-> c.seq + 1,
   jobs_ok |-> c.jobs_ok,
   jobs_drop |-> c.jobs_drop,
   last_ms |-> ms]

\* a deposit that pushes the Result before it stamps the seq
Deposit_PushBeforeSeq(c, res, ms) ==
  [ring |-> RingPush(c.ring, res),
   seq |-> c.seq + 1,
   jobs_ok |-> c.jobs_ok + 1,
   jobs_drop |-> c.jobs_drop,
   last_ms |-> ms]

\* lines 1125-1132: the Context after the deposit of res
Deposit(c, res, ms) ==
  [ring |-> RingPush(c.ring, [res EXCEPT !.seq = c.seq + 1]),
   seq |-> c.seq + 1,
   jobs_ok |-> c.jobs_ok + 1,
   jobs_drop |-> c.jobs_drop,
   last_ms |-> ms]

\* line 1112: the predicate of g_cv.wait
WaitPred(stop, q) == stop \/ q # <<>>

\* lines 1110-1116: under g_mu, block while the predicate is false, return on g_stop, else pop the head
WorkerWait(w) ==
  /\ ~terminated
  /\ MuFreeFor(w)
  /\ wpc[w] = "wait"
  /\ IF ~WaitPred(g_stop, g_jobs)
       THEN /\ wpc' = [wpc EXCEPT ![w] = "blocked"]
            /\ UNCHANGED <<g_jobs, wjob>>
       ELSE IF g_stop
         THEN /\ wpc' = [wpc EXCEPT ![w] = "exited"]
              /\ UNCHANGED <<g_jobs, wjob>>
         ELSE /\ wpc' = [wpc EXCEPT ![w] = "compute"]
              /\ wjob' = [wjob EXCEPT ![w] = Head(g_jobs)]
              /\ g_jobs' = Tail(g_jobs)
  /\ ev' = NoEv
  /\ UNCHANGED <<g_ctx, g_worker, g_worker_started, g_stop, pc, loc, terminated, hist>>

\* a thread blocked in condition_variable::wait may wake without a notify
SpuriousWake(w) ==
  /\ ~terminated
  /\ wpc[w] = "blocked"
  /\ wpc' = [wpc EXCEPT ![w] = "wait"]
  /\ ev' = NoEv
  /\ UNCHANGED <<shared, wjob, pc, loc, terminated, hist>>

\* lines 1118-1132: compute_job without the mutex, then the deposit under g_mu
WorkerDeposit(w) ==
  /\ ~terminated
  /\ MuFreeFor(w)
  /\ wpc[w] = "compute"
  /\ \E ms \in Latencies :
       LET job == wjob[w]
           c == Deposit(CtxAt(g_ctx, job.key), compute_job(job), ms)
       IN /\ g_ctx' = CtxPut(g_ctx, job.key, c)
          /\ deps' = Append(deps, [id |-> job.payload, key |-> job.key, seq |-> c.seq,
                                    in |-> job.in,
                                    res |-> [time |-> job.bar_time, seq |-> c.seq,
                                             out |-> compute_job(job).out]])
  /\ wpc' = [wpc EXCEPT ![w] = "wait"]
  /\ wjob' = [wjob EXCEPT ![w] = NoJob]
  /\ ev' = NoEv
  /\ UNCHANGED <<g_jobs, g_worker, g_worker_started, g_stop, pc, loc, terminated,
                 nsub, nshut, shutdown_returned, nextId, accepted, drops>>

(* ---- SCL_Shutdown ------------------------------------------------------ *)
\* lines 1145-1148: g_stop = true under g_mu.  One SCL_Shutdown runs at a time.
ShutdownCall(t) ==
  /\ ~terminated
  /\ MuFree
  /\ pc[t] = "idle"
  /\ nshut < MaxShutdowns
  /\ \A u \in Threads : pc[u] \notin {"sd_notify", "sd_joinable", "sd_join", "sd_clear"}
  /\ g_stop' = TRUE
  /\ nshut' = nshut + 1
  /\ pc' = [pc EXCEPT ![t] = "sd_notify"]
  /\ ev' = NoEv
  /\ UNCHANGED <<g_jobs, g_ctx, g_worker, g_worker_started, workerVars, loc, terminated,
                 nsub, shutdown_returned, nextId, accepted, deps, drops>>

\* line 1149
ShutdownNotify(t) ==
  /\ ~terminated
  /\ pc[t] = "sd_notify"
  /\ wpc' = NotifyAll(wpc)
  /\ pc' = [pc EXCEPT ![t] = "sd_joinable"]
  /\ ev' = NoEv
  /\ UNCHANGED <<shared, wjob, loc, terminated, hist>>

\* line 1150: g_worker.joinable(), read without the mutex
ShutdownJoinTest(t) ==
  /\ ~terminated
  /\ pc[t] = "sd_joinable"
  /\ pc' = [pc EXCEPT ![t] = IF g_worker # 0 THEN "sd_join" ELSE "sd_clear"]
  /\ loc' = [loc EXCEPT ![t].w = g_worker]
  /\ ev' = NoEv
  /\ UNCHANGED <<shared, workerVars, terminated, hist>>

\* line 1150: g_worker.join() returns once that thread has left worker_loop
ShutdownJoin(t) ==
  /\ ~terminated
  /\ pc[t] = "sd_join"
  /\ wpc[loc[t].w] = "exited"
  /\ g_worker' = 0
  /\ pc' = [pc EXCEPT ![t] = "sd_clear"]
  /\ ev' = NoEv
  /\ UNCHANGED <<g_jobs, g_ctx, g_worker_started, g_stop, workerVars, loc, terminated, hist>>

\* lines 1155-1161: clear the queue and the contexts under g_mu, return 1
ShutdownClear(t) ==
  /\ ~terminated
  /\ MuFree
  /\ pc[t] = "sd_clear"
  /\ g_jobs' = <<>>
  /\ g_ctx' = <<>>
  /\ shutdown_returned' = shutdown_returned + 1
  /\ pc' = [pc EXCEPT ![t] = "idle"]
  /\ loc' = [loc EXCEPT ![t] = NoLoc]
  /\ ev' = [op |-> "Shutdown", ret |-> 1]
  /\ UNCHANGED <<g_worker, g_worker_started, g_stop, workerVars, terminated,
                 nsub, nshut, nextId, accepted, deps, drops>>

(* ---- queries ----------------------------------------------------------- *)
\* what a query leaves in the caller's memory when it writes nothing
Miss == [ret |-> 0, out |-> Untouched, out_time |-> Untouched, out_seq |-> Untouched]

\* lines 1221-1224, 1250-1253: copy r to the caller
Hit(r, has_time, has_seq) ==
  [ret |-> 1, out |-> r.out,
   out_time |-> IF has_time THEN r.time ELSE Untouched,
   out_seq |-> IF has_seq THEN r.seq ELSE Untouched]

\* a lookup that hands out a default Result when the key has nothing to return
TryGetLatest_DefaultOnEmpty(ctx, key, a) ==
  IF ~a[1] \/ a[2] < kOutFields THEN Miss
  ELSE IF key \notin DOMAIN ctx \/ ctx[key].ring = <<>>
    THEN Hit([time |-> 0, seq |-> 0, out |-> [i \in 1..kOutFields |-> 0]], a[3], a[4])
  ELSE Hit(ctx[key].ring[1], a[3], a[4])

\* lines 1215-1225
TryGetLatest(ctx, key, a) ==
  IF ~a[1] \/ a[2] < kOutFields THEN Miss
  ELSE IF key \notin DOMAIN ctx \/ ctx[key].ring = <<>> THEN Miss
  ELSE Hit(ctx[key].ring[1], a[3], a[4])

\* lines 1232-1238: the first entry from the front whose time is bar_time, 0 when none
FirstAt(ring, bar_time) ==
  LET S == {i \in 1..Len(ring) : ring[i].time = bar_time}
  IN IF S = {} THEN 0 ELSE CHOOSE i \in S : \A j \in S : i <= j

\* lines 1227-1240 (the function has no out_time parameter)
TryGetByTime(ctx, key, bar_time, a) ==
  IF ~a[1] \/ a[2] < kOutFields THEN Miss
  ELSE IF key \notin DOMAIN ctx THEN Miss
  ELSE IF FirstAt(ctx[key].ring, bar_time) = 0 THEN Miss
  ELSE Hit(ctx[key].ring[FirstAt(ctx[key].ring, bar_time)], FALSE, a[4])

\* lines 1242-1254: idx counts from 0 at the front
TryGetAtIndex(ctx, key, idx, a) ==
  IF ~a[1] \/ a[2] < kOutFields THEN Miss
  ELSE IF idx < 0 THEN Miss
  ELSE IF key \notin DOMAIN ctx THEN Miss
  ELSE IF idx >= Len(ctx[key].ring) THEN Miss
  ELSE Hit(ctx[key].ring[idx + 1], a[3], a[4])

\* lines 1256-1266
GetStats(ctx, key, a) ==
  IF ~a[1] \/ a[2] < 4 THEN [ret |-> 0, out |-> Untouched]
  ELSE IF key \notin DOMAIN ctx THEN [ret |-> 0, out |-> Untouched]
  ELSE [ret |-> 1,
        out |-> <<ctx[key].jobs_ok, ctx[key].jobs_drop, ctx[key].last_ms, Len(ctx[key].ring)>>]

QueryFrame == UNCHANGED <<shared, workerVars, pc, loc, terminated, hist>>

CallLatest ==
  /\ ~terminated
  /\ MuFree
  /\ \E key \in Keys, a \in QueryArgs :
       ev' = [op |-> "TryGetLatest", key |-> key, arg |-> 0, args |-> a,
              res |-> TryGetLatest(g_ctx, key, a)]
  /\ QueryFrame

CallByTime ==
  /\ ~terminated
  /\ MuFree
  /\ \E key \in Keys, bar_time \in BarTimes, a \in QueryArgs :
       ev' = [op |-> "TryGetByTime", key |-> key, arg |-> bar_time, args |-> a,
              res |-> TryGetByTime(g_ctx, key, bar_time, a)]
  /\ QueryFrame

CallAtIndex ==
  /\ ~terminated
  /\ MuFree
  /\ \E key \in Keys, idx \in Idxs, a \in QueryArgs :
       ev' = [op |-> "TryGetAtIndex", key |-> key, arg |-> idx, args |-> a,
              res |-> TryGetAtIndex(g_ctx, key, idx, a)]
  /\ QueryFrame

CallStats ==
  /\ ~terminated
  /\ MuFree
  /\ \E key \in Keys, a \in StatsArgs :
       ev' = [op |-> "GetStats", key |-> key, arg |-> 0, args |-> a,
              res |-> GetStats(g_ctx, key, a)]
  /\ QueryFrame

(* ---- SCL_STFT ---------------------------------------------------------- *)
\* a segment count that forgets the overlap
NumSegments_NoOverlap(N, noverlap, step) == N \div step

\* line 931: int nseg = (N - noverlap) / step, for step > 0 and N > noverlap
NumSegments(N, noverlap, step) == (N - noverlap) \div step

\* lines 181-186, 769-775: the sample indices start + i the segment loader computes,
\* start = start0 + seg * step
SegmentReads(start0, step, nperseg, nseg) ==
  {start0 + seg * step + i : seg \in 0..(nseg - 1), i \in 0..(nperseg - 1)}

\* a time grid of segment starts instead of segment centres
TimeGrid_Starts(nseg, step, nperseg, fs) ==
  [s \in 1..nseg |-> <<2 * (s - 1) * step, 2 * fs>>]

\* lines 1001-1002: t[s] = (s * step + nperseg / 2.0) / fs, kept as the fraction
\* <<numerator, denominator>> = <<2 s step + nperseg, 2 fs>>
TimeGrid(nseg, step, nperseg, fs) ==
  [s \in 1..nseg |-> <<2 * (s - 1) * step + nperseg, 2 * fs>>]

StftFail == [ret |-> 0, nperseg |-> 0, noverlap |-> 0, step |-> 0, nseg |-> 0,
             nfft_eff |-> 0, idx |-> {}, t |-> <<>>]

\* an FFT length that is not rounded up
NfftEff_NoRound(nfft, nperseg) == Max(IF nfft > 0 THEN nfft ELSE nperseg, nperseg)

\* lines 934-936: the FFT length of the STFT
NfftEff(nfft, nperseg) == next_pow2(Max(IF nfft > 0 THEN nfft ELSE nperseg, nperseg))

\* lines 917-1016: the segmentation gpu_stft derives from its arguments, the sample
\* indices it loads and the time grid it returns
gpu_stft(N, fs, nperseg0, noverlap0, nfft, gpu) ==
  LET nperseg1 == IF nperseg0 <= 0 THEN N ELSE nperseg0
      nperseg == IF nperseg1 > N THEN N ELSE nperseg1
      noverlap1 == IF noverlap0 < 0 THEN nperseg \div 2 ELSE noverlap0
      noverlap == IF noverlap1 >= nperseg THEN nperseg - 1 ELSE noverlap1
      step == nperseg - noverlap
      nseg == NumSegments(N, noverlap, step)
      nfft_eff == NfftEff(nfft, nperseg)
  IN IF ~gpu \/ N <= 0 THEN StftFail
     ELSE IF step <= 0 THEN StftFail
     ELSE IF nseg <= 0 THEN StftFail
     ELSE [ret |-> 1, nperseg |-> nperseg, noverlap |-> noverlap, step |-> step,
           nseg |-> nseg, nfft_eff |-> nfft_eff,
           idx |-> SegmentReads(0, step, nperseg, nseg),
           t |-> TimeGrid(nseg, step, nperseg, fs)]

\* lines 1303-1322, called with output buffers that are large enough
SCL_STFT(x_len, fs, nperseg, noverlap, nfft, gpu) ==
  IF x_len <= 0 THEN StftFail ELSE gpu_stft(x_len, fs, nperseg, noverlap, nfft, gpu)

CallSTFT ==
  /\ ~terminated
  /\ \E a \in StftInputs, gpu \in BOOLEAN :
       ev' = [op |-> "STFT", args |-> a, gpu |-> gpu,
              res |-> SCL_STFT(a[1], a[2], a[3], a[4], a[5], gpu)]
  /\ QueryFrame

\* next_pow2 applied to one argument
CallNextPow2 ==
  /\ ~terminated
  /\ \E n \in Pow2Inputs : ev' = [op |-> "next_pow2", n |-> n, ret |-> next_pow2(n)]
  /\ QueryFrame

(* ---- SCL_Periodogram: the power of each bin ---------------------------- *)
\* the largest power of one bin of an input spectrum
MaxPow == 2

\* x_len and nfft of the calls: nfft_eff comes out as 1, 2, 4 and 8
PgramLens == {<<1, 0>>, <<2, 0>>, <<3, 0>>, <<3, 5>>}

\* lines 839-843: the FFT length of a periodogram of x_len > 0 samples
PgramNfftEff(x_len, nfft) ==
  LET nperseg == IF nfft > 0 THEN Min(nfft, x_len) ELSE x_len
  IN next_pow2(Max(IF nfft > 0 THEN nfft ELSE nperseg, nperseg))

\* the squared magnitudes re^2 + im^2 (line 905) of the transform of a real input of
\* n points: bin k and bin n - k are conjugates, so their magnitudes agree
RealMag2(n) ==
  {[k \in 0..(n - 1) |-> h[IF 2 * k <= n THEN k ELSE n - k]] : h \in [0..(n \div 2) -> 0..MaxPow]}

\* a doubling rule that takes the last bin of an even length as well
LastDoubled_All(nfft_eff, nfreq) == nfreq - 1

\* line 910
LastDoubled(nfft_eff, nfreq) == IF nfft_eff % 2 # 0 THEN nfreq - 1 ELSE nfreq - 2

\* lines 889-912: pxx of the nfreq bins, given the squared magnitudes of the spectrum
Pxx(mag2, nfft_eff, onesided) ==
  LET nfreq == IF onesided THEN nfft_eff \div 2 + 1 ELSE nfft_eff
      last == LastDoubled(nfft_eff, nfreq)
  IN [k \in 0..(nfreq - 1) |->
        IF onesided /\ 1 <= k /\ k <= last THEN 2 * mag2[k] ELSE mag2[k]]

\* SCL_Periodogram of the same samples with return_onesided = 1 and = 0
CallPeriodogram ==
  /\ ~terminated
  /\ \E a \in PgramLens :
       LET n == PgramNfftEff(a[1], a[2])
       IN \E m \in RealMag2(n) :
            ev' = [op |-> "Periodogram", args |-> a, nfft_eff |-> n, mag2 |-> m,
                   one |-> Pxx(m, n, TRUE), two |-> Pxx(m, n, FALSE)]
  /\ QueryFrame

(* ---- compute_job applied to one job ------------------------------------ *)
\* the longest series of the jobs whose window parameters vary
MaxWin == 3

\* what atan2 yields, in quarter turns: -pi .. pi
Phases == (0 - kPi)..kPi

\* min_period and max_period of the calls
Bands == {<<3, 5>>, <<2, 8>>, <<2, 3>>, <<10, 40>>, <<5, 3>>}

\* the phase of bin k when bin 1 has phase ph: each bin of a spectrum has its own
BinPhase(ph, k) == ((ph + kPi + k - 1) % (2 * kPi + 1)) - kPi

\* the spectrum with the powers pow and the phase ph in bin 1
Bins(pow, ph) == [k \in DOMAIN pow |-> [pow |-> pow[k], ph |-> BinPhase(ph, k)]]

\* the powers of the wave spectra: one peak in bin j over a floor of 1, the flat
\* spectrum (j = 0), and the spectrum without power
WavePows(nb) ==
  {[k \in 1..nb |-> IF k = j THEN MaxPow ELSE 1] : j \in 0..nb} \cup {[k \in 1..nb |-> 0]}

\* jobs of 2 nb samples analysed whole (nfft = 0, so nfft_eff = 2 nb), the spectra
\* of price and wave and the band varying, the phase of wave drawn from phs
SpectraJobsOf(nb, phs) ==
  {[price_len |-> 2 * nb, wave_len |-> 2 * nb, window_min |-> 2, window_max |-> 8,
    nfft |-> 0, min_period |-> b[1], max_period |-> b[2], gpu |-> TRUE,
    price |-> Bins(pp, phP), wave |-> Bins(pw, phW)] :
     pp \in [1..nb -> 0..MaxPow], pw \in WavePows(nb),
     phP \in Phases, phW \in phs, b \in Bands}

\* jobs of one spectrum, the lengths of the series and the window parameters varying
WindowJobs ==
  {[price_len |-> pl, wave_len |-> wl, window_min |-> lo, window_max |-> hi,
    nfft |-> 4, min_period |-> 3, max_period |-> 5, gpu |-> g,
    price |-> JobInput("tone").price, wave |-> JobInput("tone").wave] :
     pl \in 0..MaxWin, wl \in 0..MaxWin,
     lo \in (0 - 2)..(MaxWin + 1), hi \in (0 - 2)..(MaxWin + 1), g \in BOOLEAN}

\* line 1023: N = min(price.size(), wave.size())
WithN(q) ==
  [n |-> Min(q.price_len, q.wave_len), window_min |-> q.window_min,
   window_max |-> q.window_max, nfft |-> q.nfft, min_period |-> q.min_period,
   max_period |-> q.max_period, gpu |-> q.gpu, price |-> q.price, wave |-> q.wave]

\* lines 1025-1029: with W < 0 the copies run from begin() to begin() + W, a range
\* that is not valid
CopyUndefined(in) ==
  LET W == Min(in.window_max, in.n)
  IN in.n > 0 /\ W >= in.window_min /\ W < 0

\* lines 1023-1029: the indices of price and of wave that the copies read
SamplesRead(in) ==
  LET W == Min(in.window_max, in.n)
  IN IF in.n <= 0 \/ W < in.window_min THEN {} ELSE 0..(W - 1)

\* compute_job on one job: of 4 samples with every pair of phases, of 8 samples with
\* every phase of price against phase 0 of wave, or with the window parameters
\* varying.  Where the copies are undefined the outcomes are: the
\* vector constructor throws and the thread ends the process, the copy reads the
\* elements before begin(), or the copy comes out empty.
CallComputeJob ==
  /\ ~terminated
  /\ \E q \in SpectraJobsOf(2, Phases) \cup SpectraJobsOf(4, {0}) \cup WindowJobs :
       LET in == WithN(q)
           job == [NoJob EXCEPT !.key = 7, !.bar_time = 10]
           W == Min(in.window_max, in.n)
       IN IF CopyUndefined(in)
            THEN \E outcome \in {"throw", "wild", "empty"} :
                   /\ terminated' = (outcome = "throw")
                   /\ ev' = [op |-> "compute_job", q |-> q, undefined |-> TRUE,
                             reads |-> IF outcome = "wild" THEN W..(0 - 1) ELSE {},
                             phase_diff |-> 0, passes |-> 0,
                             pk |-> JobPeaks(in), res |-> compute_job_of(job, in)]
            ELSE /\ terminated' = FALSE
                 /\ ev' = [op |-> "compute_job", q |-> q, undefined |-> FALSE,
                           reads |-> SamplesRead(in),
                           phase_diff |-> IF JobPeaks(in).ok
                                            THEN PhaseDiff(JobPeaks(in).P.ph, JobPeaks(in).W.ph)
                                            ELSE 0,
                           passes |-> IF JobPeaks(in).ok
                                        THEN WrapPasses(Abs(JobPeaks(in).P.ph - JobPeaks(in).W.ph))
                                        ELSE 0,
                           pk |-> JobPeaks(in), res |-> compute_job_of(job, in)]
  /\ UNCHANGED <<shared, workerVars, pc, loc, hist>>

\* the caller is done with the outputs of a call
Forget ==
  /\ ~terminated
  /\ ev # NoEv
  /\ ev' = NoEv
  /\ QueryFrame

(* ---- which transform kernels a call runs ------------------------------- *)
\* the window names of the calls: a cosine window and the Chebyshev window
Windows == {"hann", "chebwin"}

\* nfft arguments of the calls
NfftArgs == {0, 3, 5, 8}

RECURSIVE is_pow2(_)
\* lines 243-245: n > 0 with a single bit set
is_pow2(n) == n > 0 /\ (n = 1 \/ (n % 2 = 0 /\ is_pow2(n \div 2)))

\* lines 434-488: fft_execute_single of N points runs the dft_complex kernel when N
\* is not a power of two, else bit_reverse and the fft_stage passes
fft_execute_single(N, for) ==
  IF N <= 0 THEN <<>>
  ELSE IF ~is_pow2(N) THEN <<[kernel |-> "dft_complex", N |-> N, nseg |-> 1, for |-> for]>>
  ELSE <<[kernel |-> "fft_stage", N |-> N, nseg |-> 1, for |-> for]>>

\* lines 669-718: fft_execute_batch runs bit_reverse and the fft_stage passes, batched
\* when nseg > 1, without a test of N
fft_execute_batch(N, nseg, for) ==
  <<[kernel |-> IF nseg = 1 THEN "fft_stage" ELSE "fft_stage_batch",
     N |-> N, nseg |-> nseg, for |-> for]>>

\* lines 490-548: window_generate_gpu(name, M, fftbins = true): the Chebyshev window
\* is the transform of M + 1 points by fft_execute_single, the other windows are
\* computed without a transform
window_generate_gpu(name, M) ==
  IF M <= 0 THEN <<>>
  ELSE IF name = "chebwin" THEN fft_execute_single(M + 1, "window")
  ELSE <<>>

\* lines 835-862: the transforms of gpu_periodogram on x_len samples
PeriodogramKernels(x_len, nfft, window) ==
  LET nperseg == IF nfft > 0 THEN Min(nfft, x_len) ELSE x_len
  IN IF x_len <= 0 \/ nperseg <= 0 THEN <<>>
     ELSE window_generate_gpu(window, nperseg)
            \o fft_execute_batch(PgramNfftEff(x_len, nfft), 1, "data")

\* lines 921-958: the transforms of gpu_stft, r being its segmentation
StftKernels(r, window) ==
  IF r.ret = 0 THEN <<>>
  ELSE window_generate_gpu(window, r.nperseg)
         \o fft_execute_batch(r.nfft_eff, r.nseg, "data")

\* SCL_Periodogram with a window name
CallPeriodogramWin ==
  /\ ~terminated
  /\ \E x_len \in 1..MaxLen, nfft \in NfftArgs, window \in Windows :
       ev' = [op |-> "kernels", api |-> "periodogram", window |-> window,
              x_len |-> x_len, nfft |-> nfft,
              nperseg |-> IF nfft > 0 THEN Min(nfft, x_len) ELSE x_len,
              trace |-> PeriodogramKernels(x_len, nfft, window)]
  /\ QueryFrame

\* SCL_STFT with a window name
CallSTFTWin ==
  /\ ~terminated
  /\ \E x_len \in 1..MaxLen, nperseg \in 0..MaxLen, noverlap \in (0 - 1)..2,
        nfft \in NfftArgs, window \in Windows :
       LET r == SCL_STFT(x_len, 1, nperseg, noverlap, nfft, TRUE)
       IN /\ r.ret = 1
          /\ ev' = [op |-> "kernels", api |-> "stft", window |-> window,
                    x_len |-> x_len, nfft |-> nfft, nperseg |-> r.nperseg,
                    trace |-> StftKernels(r, window)]
  /\ QueryFrame

(* ---- the work-items of the FFT passes ---------------------------------- *)
\* the FFT lengths are 2^0 .. 2^MaxBits
MaxBits == 3

\* the largest number of segments of a batch
MaxSeg == 3

RECURSIVE bitrev_loop(_, _, _, _)
\* line 118: for (i = 0; i < bits; i++) { y = (y << 1) | (x & 1); x >>= 1; }
bitrev_loop(x, y, i, bits) ==
  IF i < bits THEN bitrev_loop(x \div 2, 2 * y + (x % 2), i + 1, bits) ELSE y

\* lines 117-118
bitrev(x, bits) == bitrev_loop(x, 0, 0, bits)

RECURSIVE ilog2_loop(_, _)
\* line 249: while ((1 << bits) < n) bits++;
ilog2_loop(bits, n) == IF 2^bits < n THEN ilog2_loop(bits + 1, n) ELSE bits

\* lines 247-251
ilog2_int(n) == ilog2_loop(0, n)

\* a work-item that returns at once
NoAccess == [reads |-> <<>>, writes |-> <<>>]

\* lines 120-121: work-item i of bit_reverse: the elements of in it reads and the
\* elements of out it writes
bit_reverse(i, N, bits) ==
  IF i >= N THEN NoAccess ELSE [reads |-> <<i>>, writes |-> <<bitrev(i, bits)>>]

\* lines 123-125
bit_reverse_batch(gid, N, bits) ==
  LET seg == gid \div N
      i == gid - seg * N
  IN IF i >= N THEN NoAccess
     ELSE [reads |-> <<seg * N + i>>, writes |-> <<seg * N + bitrev(i, bits)>>]

\* lines 127-136
fft_stage(i, N, m) ==
  LET hlf == m \div 2
      total == N \div 2
      j == i % hlf
      block == i \div hlf
      k == block * m + j
  IN IF i >= total THEN NoAccess
     ELSE [reads |-> <<k, k + hlf>>, writes |-> <<k, k + hlf>>]

\* a batched stage whose work-items all address segment 0
fft_stage_batch_NoBase(gid, N, m) ==
  LET hlf == m \div 2
      total == N \div 2
      seg == gid \div total
      i == gid - seg * total
      j == i % hlf
      block == i \div hlf
      k == block * m + j
  IN IF i >= total THEN NoAccess
     ELSE [reads |-> <<k, k + hlf>>, writes |-> <<k, k + hlf>>]

\* lines 138-147
fft_stage_batch(gid, N, m) ==
  LET hlf == m \div 2
      total == N \div 2
      seg == gid \div total
      i == gid - seg * total
      j == i % hlf
      block == i \div hlf
      k == block * m + j
      base == seg * N
  IN IF i >= total THEN NoAccess
     ELSE [reads |-> <<base + k, base + k + hlf>>, writes |-> <<base + k, base + k + hlf>>]

\* one cl_run_kernel of lines 677 and 701: the bit-reversal pass from input to tmp,
\* with one work-item per element
BitrevPass(N, nseg, bits) ==
  [kernel |-> IF nseg = 1 THEN "bit_reverse" ELSE "bit_reverse_batch",
   src |-> "input", dst |-> "tmp", m |-> 1,
   items |-> [gid \in 0..(nseg * N - 1) |->
                IF nseg = 1 THEN bit_reverse(gid, N, bits)
                ELSE bit_reverse_batch(gid, N, bits)]]

\* one cl_run_kernel of lines 689 and 713: the stage m from src to dst, with N/2
\* work-items per segment
StagePass(N, nseg, m, src, dst) ==
  [kernel |-> IF nseg = 1 THEN "fft_stage" ELSE "fft_stage_batch",
   src |-> src, dst |-> dst, m |-> m,
   items |-> [gid \in 0..(nseg * (N \div 2) - 1) |->
                IF nseg = 1 THEN fft_stage(gid, N, m)
                ELSE fft_stage_batch(gid, N, m)]]

RECURSIVE StageLoop(_, _, _, _, _, _)
\* lines 681-692 and 706-716: for (m = 2; m <= N; m <<= 1) { run; swap(src, dst); }
\* then out_final = src
StageLoop(N, nseg, m, src, dst, passes) ==
  IF m <= N
    THEN StageLoop(N, nseg, 2 * m, dst, src, Append(passes, StagePass(N, nseg, m, src, dst)))
    ELSE [passes |-> passes, out_final |-> src]

\* lines 669-718: the passes of fft_execute_batch(input, tmp, N, nseg, out_final)
BatchPasses(N, nseg) ==
  StageLoop(N, nseg, 2, "tmp", "input", <<BitrevPass(N, nseg, ilog2_int(N))>>)

\* fft_execute_batch on nseg segments of N points, N a power of two
CallFftBatch ==
  /\ ~terminated
  /\ \E b \in 0..MaxBits, nseg \in 1..MaxSeg :
       ev' = [op |-> "fft_execute_batch", N |-> 2^b, nseg |-> nseg,
              run |-> BatchPasses(2^b, nseg)]
  /\ QueryFrame

(* ---- the system -------------------------------------------------------- *)
\* every step of a worker thread
WorkerStep ==
  \/ \E w \in Workers : WorkerWait(w)
  \/ \E w \in Workers : SpuriousWake(w)
  \/ \E w \in Workers : WorkerDeposit(w)

\* Client threads race through SCL_Submit; the threads being interchangeable, the
\* one that calls SCL_Shutdown is taken to be the last.
Next ==
  \/ \E t \in Threads : SubmitCall(t)
  \/ \E t \in Threads : StartCheck(t)
  \/ \E t \in Threads : StartSpawn(t)
  \/ \E t \in Threads : StartAssignTest(t)
  \/ \E t \in Threads : StartAssign(t)
  \/ \E t \in Threads : SubmitPush(t)
  \/ ShutdownCall(NumThreads)
  \/ ShutdownNotify(NumThreads)
  \/ ShutdownJoinTest(NumThreads)
  \/ ShutdownJoin(NumThreads)
  \/ ShutdownClear(NumThreads)
  \/ WorkerStep

Spec == Init /\ [][Next]_vars

\* One client thread submits and shuts down while the worker runs and consumers
\* call the query functions at any moment.
NextQ ==
  \/ SubmitCall(1)
  \/ StartCheck(1)
  \/ StartSpawn(1)
  \/ StartAssignTest(1)
  \/ StartAssign(1)
  \/ SubmitPush(1)
  \/ ShutdownCall(1)
  \/ ShutdownNotify(1)
  \/ ShutdownJoinTest(1)
  \/ ShutdownJoin(1)
  \/ ShutdownClear(1)
  \/ WorkerStep
  \/ CallLatest
  \/ CallByTime
  \/ CallAtIndex
  \/ CallStats

SpecQ == Init /\ [][NextQ]_vars

\* One client thread submits jobs of every input on one key and shuts down while
\* the worker runs.
NextD ==
  \/ SubmitInput(1)
  \/ StartCheck(1)
  \/ StartSpawn(1)
  \/ StartAssignTest(1)
  \/ StartAssign(1)
  \/ SubmitPush(1)
  \/ ShutdownCall(1)
  \/ ShutdownNotify(1)
  \/ ShutdownJoinTest(1)
  \/ ShutdownJoin(1)
  \/ ShutdownClear(1)
  \/ WorkerStep

SpecD == Init /\ [][NextD]_vars

\* One client thread submits the burst on one key while the worker runs; nobody
\* reads and nobody shuts down.
NextB ==
  \/ SubmitBurst(1)
  \/ StartCheck(1)
  \/ StartSpawn(1)
  \/ StartAssignTest(1)
  \/ StartAssign(1)
  \/ SubmitPush(1)
  \/ WorkerStep

SpecB == Init /\ [][NextB]_vars

\* The numeric functions applied to each of their arguments.
NextN ==
  \/ CallNextPow2
  \/ CallSTFT

SpecN == Init /\ [][NextN]_vars

\* The periodogram and the reducer applied to each of their arguments.
NextP ==
  \/ ev = NoEv /\ CallPeriodogram
  \/ ev = NoEv /\ CallComputeJob
  \/ Forget

SpecP == Init /\ [][NextP]_vars

\* The transform kernels of the periodogram and of the STFT.
NextF ==
  \/ ev = NoEv /\ CallPeriodogramWin
  \/ ev = NoEv /\ CallSTFTWin
  \/ ev = NoEv /\ CallFftBatch
  \/ Forget

SpecF == Init /\ [][NextF]_vars

\* SCL_Submit of a job of one kind
SubmitOne(t) == Submit(t, BurstKinds, MaxSubmits)

\* Two client threads submit jobs of one kind while the workers run; nobody shuts
\* down.
NextL ==
  \/ \E t \in Threads : SubmitOne(t)
  \/ \E t \in Threads : StartCheck(t)
  \/ \E t \in Threads : StartSpawn(t)
  \/ \E t \in Threads : StartAssignTest(t)
  \/ \E t \in Threads : StartAssign(t)
  \/ \E t \in Threads : SubmitPush(t)
  \/ WorkerStep

\* a thread inside SCL_Submit takes its next step
ClientStep(t) ==
  \/ StartCheck(t)
  \/ StartSpawn(t)
  \/ StartAssignTest(t)
  \/ StartAssign(t)
  \/ SubmitPush(t)

\* The scheduler is fair: a worker thread that can run its loop, and a client
\* thread inside SCL_Submit, eventually take their step.  Nothing obliges a client
\* to call SCL_Submit again, and no wake-up without a notify is promised.
Fair ==
  /\ \A w \in Workers : WF_vars(WorkerWait(w) \/ WorkerDeposit(w))
  /\ \A t \in Threads : WF_vars(ClientStep(t))

SpecL == Init /\ [][NextL]_vars /\ Fair

(* ---- properties -------------------------------------------------------- *)
RECURSIVE SumOver(_, _)
\* the sum of f[x] over the finite set S
SumOver(f, S) ==
  IF S = {} THEN 0 ELSE LET x == CHOOSE y \in S : TRUE IN f[x] + SumOver(f, S \ {x})

\* deposits of job id so far
NDep(id) == Cardinality({i \in 1..Len(deps) : deps[i].id = id})
Queued(id) == \E i \in 1..Len(g_jobs) : g_jobs[i].payload = id
Held(id) == \E w \in Workers : wpc[w] = "compute" /\ wjob[w].payload = id
WorkersIdle == \A w \in Workers : wpc[w] # "compute"
JobsOk == [k \in Keys |-> CtxAt(g_ctx, k).jobs_ok]
JobsDrop == [k \in Keys |-> CtxAt(g_ctx, k).jobs_drop]

\* C1: the job queue never holds more than kQueueMax jobs and no ring more than
\* kRingMax Results, in every reachable state.
C1_Capacity ==
  /\ Len(g_jobs) <= kQueueMax
  /\ \A k \in DOMAIN g_ctx : Len(g_ctx[k].ring) <= kRingMax

\* a push has evicted the oldest job and the queue is full again
C1_Witness ==
  /\ Len(g_jobs) = kQueueMax
  /\ \E i \in JobIds : drops[i] = 1

\* C2 (as claimed): of two deposits for the same key, the later one has the greater seq.
C2_SeqIncreasing ==
  \A i, j \in 1..Len(deps) :
    (i < j /\ deps[i].key = deps[j].key) => deps[i].seq < deps[j].seq

C4_PerKeyBalance ==
  (nshut = 0 /\ g_jobs = <<>> /\ WorkersIdle) =>
    \A k \in Keys : JobsOk[k] + JobsDrop[k] = accepted[k]

\* C4 (amended): with the queue empty and the worker idle, and SCL_Shutdown not yet
\* called, the sum over all keys of jobs_ok + jobs_drop is the number of accepted Submits.
C4_TotalBalance ==
  (nshut = 0 /\ g_jobs = <<>> /\ WorkersIdle) =>
    SumOver(JobsOk, Keys) + SumOver(JobsDrop, Keys) = SumOver(accepted, Keys)

\* the queue has drained after a push for one key evicted a job of the other key
C4_Witness ==
  /\ nshut = 0 /\ g_jobs = <<>> /\ WorkersIdle
  /\ \E k \in Keys : JobsDrop[k] > 0 /\ JobsOk[k] + JobsDrop[k] > accepted[k]

\* C5: a push made while the queue holds kQueueMax jobs removes exactly the head,
\* appends the new job at the tail, adds 1 to jobs_drop of the incoming key's Context
\* (created when absent), touches no other Context, and returns 1.
C5_BackpressurePush ==
  [][\A t \in Threads :
       (pc[t] = "push" /\ pc'[t] = "idle" /\ Len(g_jobs) = kQueueMax) =>
         LET key == loc[t].job.key IN
           /\ Len(g_jobs') = kQueueMax
           /\ SubSeq(g_jobs', 1, kQueueMax - 1) = Tail(g_jobs)
           /\ g_jobs'[kQueueMax].key = key
           /\ g_jobs'[kQueueMax].bar_time = loc[t].job.bar_time
           /\ DOMAIN g_ctx' = (DOMAIN g_ctx) \cup {key}
           /\ g_ctx'[key] = [CtxAt(g_ctx, key) EXCEPT !.jobs_drop = @ + 1]
           /\ \A k \in (DOMAIN g_ctx) \ {key} : g_ctx'[k] = g_ctx[k]
           /\ ev'.op = "Submit" /\ ev'.ret = 1
           /\ accepted'[key] = accepted[key] + 1]_vars

\* a Submit has just returned 1 after evicting a job of the other key, and the drop
\* created the Context of its own key
C5_Witness ==
  /\ nshut = 0
  /\ ev.op = "Submit" /\ ev.ret = 1
  /\ Len(g_jobs) = kQueueMax
  /\ LET key == g_jobs[kQueueMax].key IN
       /\ key \in DOMAIN g_ctx
       /\ g_ctx[key].jobs_drop = 1 /\ g_ctx[key].seq = 0
       /\ \E k \in Keys \ {key} :
            /\ accepted[k] = 1 /\ JobsOk[k] = 0
            /\ \A i \in 1..Len(g_jobs) : g_jobs[i].key # k
            /\ \A w \in Workers : wjob[w].key # k

\* C6 (as claimed): deposits happen in the order the jobs were pushed.
C6_DepositOrder ==
  \A i, j \in 1..Len(deps) : i < j => deps[i].id < deps[j].id

\* C7 (as claimed): once SCL_Shutdown has returned, no Result is deposited and no seq
\* or jobs_ok changes.
C7_NoDepositAfterShutdown ==
  [][shutdown_returned > 0 =>
       /\ deps' = deps
       /\ \A k \in Keys : /\ CtxAt(g_ctx', k).ring = CtxAt(g_ctx, k).ring
                          /\ CtxAt(g_ctx', k).seq = CtxAt(g_ctx, k).seq
                          /\ CtxAt(g_ctx', k).jobs_ok = CtxAt(g_ctx, k).jobs_ok]_vars

\* C8 (as claimed): once the stop flag is set it stays set, no job is pushed and no
\* Submit returns 1.
C8_RejectAfterStop ==
  [][g_stop => (g_stop' /\ nextId' = nextId /\ accepted' = accepted)]_vars

TryGets == {"TryGetLatest", "TryGetByTime", "TryGetAtIndex"}

\* the call of the last step was made with arguments the function must refuse
InvalidCall(e) ==
  \/ e.op = "Submit" /\ (~e.args[1] \/ ~e.args[3] \/ e.args[2] <= 0 \/ e.args[4] <= 0)
  \/ e.op \in TryGets /\ (~e.args[1] \/ e.args[2] < 12)
  \/ e.op = "GetStats" /\ (~e.args[1] \/ e.args[2] < 4)

\* C9: a call with invalid arguments returns 0, writes nothing to the caller's memory
\* and leaves the queue, the Contexts, the worker and its started flag as they were.
C9_InvalidCallNoEffect ==
  [][InvalidCall(ev') =>
       /\ IF ev'.op = "Submit" THEN ev'.ret = 0
          ELSE IF ev'.op = "GetStats" THEN ev'.res = [ret |-> 0, out |-> Untouched]
          ELSE ev'.res = [ret |-> 0, out |-> Untouched, out_time |-> Untouched,
                          out_seq |-> Untouched]
       /\ UNCHANGED <<g_jobs, g_ctx, g_worker, g_worker_started, g_stop, wpc, wjob,
                      nextId, accepted>>]_vars

\* a Submit with a negative wave_len was refused while the worker runs and a job waits
C9_Witness ==
  /\ ev.op = "Submit" /\ ev.args[4] <= 0 /\ ev.ret = 0
  /\ g_worker_started /\ ~g_stop
  /\ g_jobs # <<>>

\* C10: for a key without Context, or whose ring is empty, each TryGet function
\* returns 0, writes nothing to out, out_time or out_seq, and creates no Context.
C10_UnknownKeyMiss ==
  [][(ev'.op \in TryGets
        /\ (ev'.key \notin DOMAIN g_ctx \/ g_ctx[ev'.key].ring = <<>>)) =>
       /\ ev'.res.ret = 0
       /\ ev'.res.out = Untouched
       /\ ev'.res.out_time = Untouched
       /\ ev'.res.out_seq = Untouched
       /\ g_ctx' = g_ctx]_vars

\* a well-formed TryGetLatest missed on a key whose Context exists with an empty ring
C10_Witness ==
  /\ ev.op = "TryGetLatest" /\ ev.args = <<TRUE, 12, TRUE, TRUE>>
  /\ ev.key \in DOMAIN g_ctx
  /\ g_ctx[ev.key].ring = <<>>
  /\ ev.res.ret = 0

\* worker threads created so far
Created == {w \in Workers : wpc[w] # "none"}

\* C11 (as claimed): at most one worker thread is ever created, and none before a
\* Submit has passed the g_stop and argument tests.
C11_SingleWorker ==
  /\ Cardinality(Created) <= 1
  /\ Created # {} => nsub > 0

\* worker w deposits in this step the job it holds
Deposits(w) == wpc[w] = "compute" /\ wpc'[w] = "wait" /\ Len(deps') = Len(deps) + 1

\* the job's usable input W = min(window_max, n) is shorter than window_min, or empty
EarlyReturn(job) ==
  LET in == JobInput(job.in)
      W == Min(in.window_max, in.n)
  IN W < in.window_min \/ W <= 0

\* the spectrum is all zero, or no bin k has its period 2 Len / k inside the band
NothingToFind(job) ==
  LET in == JobInput(job.in)
      Flat(sp) == \A k \in 1..Len(sp) : sp[k].pow = 0
      NoBand(sp) == \A k \in 1..Len(sp) :
                      2 * Len(sp) < in.min_period * k \/ 2 * Len(sp) > in.max_period * k
  IN Flat(in.price) \/ Flat(in.wave) \/ NoBand(in.price) \/ NoBand(in.wave)

\* the deposit of w's job put at the ring front a Result with the job's bar_time and
\* the key's next seq, and counted one jobs_ok
DepositedNext(w) ==
  LET key == wjob[w].key
      old == CtxAt(g_ctx, key)
  IN /\ key \in DOMAIN g_ctx'
     /\ g_ctx'[key].ring # <<>>
     /\ g_ctx'[key].ring[1].time = wjob[w].bar_time
     /\ g_ctx'[key].ring[1].seq = old.seq + 1
     /\ g_ctx'[key].seq = old.seq + 1
     /\ g_ctx'[key].jobs_ok = old.jobs_ok + 1

AllZero(out) == \A i \in 1..kOutFields : out[i] = 0

Matching(e) ==
  {i \in 1..Len(deps) :
     /\ deps[i].key = e.key
     /\ deps[i].res.out = e.res.out
     /\ e.args[3] => e.res.out_time = deps[i].res.time
     /\ e.args[4] => e.res.out_seq = deps[i].res.seq}

\* C13: what a successful SCL_TryGetLatest or SCL_TryGetAtIndex returns is one
\* deposited Result of that key as a whole: the 12 fields, the bar_time of the job
\* they were computed from and the seq of that deposit, which is at least 1.
C13_WholeResult ==
  [][(ev'.op \in {"TryGetLatest", "TryGetAtIndex"} /\ ev'.res.ret = 1) =>
       /\ Matching(ev') # {}
       /\ ev'.args[4] => ev'.res.out_seq >= 1]_vars

\* while the worker computes the next job, SCL_TryGetAtIndex(1) returned the older of
\* two Results of a key whole
C13_Witness ==
  /\ ev.op = "TryGetAtIndex" /\ ev.arg = 1 /\ ev.args = <<TRUE, 12, TRUE, TRUE>>
  /\ ev.res.ret = 1
  /\ \E w \in Workers : wpc[w] = "compute" /\ wjob[w].key = ev.key
  /\ Len(deps) = 2
  /\ deps[1].key = ev.key /\ deps[2].key = ev.key
  /\ deps[1].res # deps[2].res
  /\ Matching(ev) = {1}

\* C14: while a worker computes, the job it holds is not in the queue and has not
\* been evicted, and g_mu is free: a Submit that has reached its push, and each of
\* the four queries, can take their step before the compute ends.
C14_ComputeUnlocked ==
  \A w \in Workers :
    (wpc[w] = "compute" /\ ~terminated) =>
      /\ ~Queued(wjob[w].payload)
      /\ drops[wjob[w].payload] = 0
      /\ \A t \in Threads : pc[t] = "push" => ENABLED SubmitPush(t)
      /\ ENABLED CallLatest
      /\ ENABLED CallByTime
      /\ ENABLED CallAtIndex
      /\ ENABLED CallStats

\* during the compute of job 1, two Submit calls were made and returned, the second
\* evicting job 2 from the full queue
C14_Witness ==
  /\ \E w \in Workers : wpc[w] = "compute" /\ wjob[w].payload = 1
  /\ Len(g_jobs) = kQueueMax
  /\ g_jobs[1].payload = 3
  /\ drops[2] = 1 /\ drops[1] = 0
  /\ deps = <<>>
  /\ ev.op = "Submit" /\ ev.ret = 1

\* C15 (as claimed): once the stop flag is set no worker pops a job, and the step of
\* SCL_Shutdown that clears the queue and the Contexts is taken only when every
\* worker thread that was created has left worker_loop.
C15_CooperativeShutdown ==
  [][/\ g_stop => \A w \in Workers : wpc'[w] = "compute" => wpc[w] = "compute"
     /\ \A t \in Threads :
          (pc[t] = "sd_clear" /\ pc'[t] = "idle") =>
            \A w \in Workers : wpc[w] \in {"none", "exited"}]_vars

\* jobs the workers have popped so far
Popped == Len(deps) + Cardinality({w \in Workers : wpc[w] = "compute"})

\* C16 (as claimed): once one thread has submitted kQueueMax + 4 valid jobs on one key,
\* that key's jobs_drop is at least 4, and its ring never exceeds kRingMax.
C16_BurstDropsFour ==
  /\ \A k \in DOMAIN g_ctx : Len(g_ctx[k].ring) <= kRingMax
  /\ \A k \in Keys : accepted[k] = BurstSubmits => JobsDrop[k] >= 4

\* C16 (amended): once one thread has submitted kQueueMax + 4 valid jobs on one key,
\* that key's jobs_drop is at most 4 and is 4 less the jobs the worker popped in
\* excess of the free room of the queue: jobs_drop = kQueueMax + 4 - popped - queued;
\* the ring never exceeds kRingMax.
C16_BurstDropsBalance ==
  /\ \A k \in DOMAIN g_ctx : Len(g_ctx[k].ring) <= kRingMax
  /\ \A k \in Keys :
       accepted[k] = BurstSubmits =>
         /\ JobsDrop[k] <= 4
         /\ JobsDrop[k] = BurstSubmits - Popped - Len(g_jobs)
         /\ JobsDrop[k] + Popped >= 4

\* the burst is over; the worker popped the first job and still computes it, so only
\* three jobs were evicted
C16_Witness ==
  /\ accepted[7] = BurstSubmits
  /\ \E w \in Workers : wpc[w] = "compute" /\ wjob[w].payload = 1
  /\ deps = <<>>
  /\ JobsDrop[7] = 3
  /\ Len(g_jobs) = kQueueMax

\* the Results deposited for key so far, oldest first
KeyDeps(key) ==
  LET d == SelectSeq(deps, LAMBDA x : x.key = key)
  IN [i \in 1..Len(d) |-> d[i].res]

FullArgs == <<TRUE, 12, TRUE, TRUE>>

\* what a call hands to the caller when it returns Result r
Handed(r, with_time) ==
  [ret |-> 1, out |-> r.out, out_time |-> IF with_time THEN r.time ELSE Untouched,
   out_seq |-> r.seq]

\* C17 (as claimed): for a key with a non-empty ring, SCL_TryGetLatest returns the
\* Result of highest seq deposited for the key; SCL_TryGetAtIndex(idx) succeeds
\* exactly for 0 <= idx < ring.len and returns the idx-th most recent Result;
\* SCL_TryGetByTime returns the most recent deposit with that bar_time, and 0 when
\* no entry of the ring has it.
C17_QuerySemantics ==
  \A key \in DOMAIN g_ctx :
    LET ring == g_ctx[key].ring
        d == KeyDeps(key)
        n == Len(d)
    IN ring # <<>> =>
         /\ TryGetLatest(g_ctx, key, FullArgs) = Handed(d[n], TRUE)
         /\ \A i \in 1..n : d[i].seq <= d[n].seq
         /\ \A idx \in Idxs :
              IF 0 <= idx /\ idx < Len(ring)
                THEN /\ idx < n
                     /\ TryGetAtIndex(g_ctx, key, idx, FullArgs) = Handed(d[n - idx], TRUE)
                ELSE TryGetAtIndex(g_ctx, key, idx, FullArgs).ret = 0
         /\ \A bar_time \in BarTimes :
              LET S == {i \in 1..n : d[i].time = bar_time}
              IN IF \E j \in 1..Len(ring) : ring[j].time = bar_time
                   THEN /\ S # {}
                        /\ TryGetByTime(g_ctx, key, bar_time, FullArgs)
                             = Handed(d[CHOOSE i \in S : \A j \in S : j <= i], FALSE)
                   ELSE TryGetByTime(g_ctx, key, bar_time, FullArgs).ret = 0

IsPow2(x) == \E k \in 0..30 : x = 2^k

\* C18 (as claimed): for every 32-bit int n, next_pow2(n) is a power of two and is
\* at least n, and next_pow2(2^k) = 2^k for every representable 2^k.
C18_NextPow2 ==
  ev.op = "next_pow2" =>
    /\ IsPow2(ev.ret)
    /\ ev.ret >= ev.n
    /\ IsPow2(ev.n) => ev.ret = ev.n

\* C18 (amended): for every 32-bit int n, next_pow2(n) is a power of two, at least n
\* when n <= 2^30 and equal to 2^30 when n > 2^30, and next_pow2(2^k) = 2^k for
\* every representable 2^k.
C18_NextPow2Capped ==
  ev.op = "next_pow2" =>
    /\ IsPow2(ev.ret)
    /\ ev.n <= 2^30 => ev.ret >= ev.n
    /\ ev.n > 2^30 => ev.ret = 2^30
    /\ IsPow2(ev.n) => ev.ret = ev.n

\* next_pow2 was applied to 2^30 + 1 and returned 2^30
C18_Witness ==
  /\ ev.op = "next_pow2"
  /\ ev.n = 2^30 + 1
  /\ ev.ret = 2^30

\* C19: for every input length L >= 1 and every nperseg and noverlap, a successful
\* STFT has nseg >= 1 segments of 1 <= nperseg <= L samples, step = nperseg -
\* noverlap >= 1 apart with nseg = (L - noverlap) / step, and every sample index
\* start + i it computes lies in 0 .. L-1; a failed one loads no sample and returns
\* no segment.
C19_NoLookAhead ==
  ev.op = "STFT" =>
    LET L == ev.args[1]
        r == ev.res
    IN IF r.ret = 1
         THEN /\ L >= 1
              /\ r.nseg >= 1
              /\ 1 <= r.nperseg /\ r.nperseg <= L
              /\ 0 <= r.noverlap /\ r.noverlap < r.nperseg
              /\ r.step = r.nperseg - r.noverlap
              /\ r.nseg * r.step <= L - r.noverlap
              /\ (r.nseg + 1) * r.step > L - r.noverlap
              /\ r.idx # {}
              /\ \A i \in r.idx : 0 <= i /\ i <= L - 1
              /\ Len(r.t) = r.nseg
         ELSE r.idx = {} /\ r.t = <<>> /\ r.nseg = 0

\* an STFT of 5 samples with nperseg 3 and noverlap 1 took 2 segments and read up
\* to the last sample
C19_Witness ==
  /\ ev.op = "STFT" /\ ev.args = <<5, 1, 3, 1, 0>>
  /\ ev.res.ret = 1
  /\ ev.res.nseg = 2
  /\ ev.res.idx = 0..4

\* the STFT of the scenario: 32 samples, nperseg 8, noverlap 4, nfft 8, fs 1
Scenario4(e) == e.op = "STFT" /\ e.args = <<32, 1, 8, 4, 8>> /\ e.gpu

\* C20 (as claimed): the STFT of 32 samples with nperseg 8, noverlap 4, nfft 8 and
\* fs 1 has 7 segments and the time grid 4, 6, 8, 10, 12, 14, 16.
C20_TimeGrid ==
  Scenario4(ev) =>
    /\ ev.res.ret = 1
    /\ ev.res.nseg = 7
    /\ \A s \in 1..7 : ev.res.t[s][1] = (4 + 2 * (s - 1)) * ev.res.t[s][2]

\* C20 (amended): that STFT has 7 segments and the time grid 4, 8, 12, 16, 20, 24,
\* 28, that is t[s] = (s * step + nperseg / 2) / fs with step = 4.
C20_TimeGridStep4 ==
  Scenario4(ev) =>
    /\ ev.res.ret = 1
    /\ ev.res.nseg = 7
    /\ ev.res.step = 4
    /\ Len(ev.res.t) = 7
    /\ \A s \in 1..7 : ev.res.t[s][1] = (4 + 4 * (s - 1)) * ev.res.t[s][2]

\* the STFT of the scenario has returned its 7 segments
C20_Witness ==
  /\ Scenario4(ev)
  /\ ev.res.ret = 1
  /\ Len(ev.res.t) = 7
  /\ ev.res.nfft_eff = 8


\* C21: for a real input (the power of bin k equals the power of bin nfft_eff - k) the
\* onesided periodogram sums to the same total as the twosided one over all nfft_eff
\* bins; exactly the bins 1 .. nfft_eff/2 - 1 are doubled, so the DC bin and the
\* Nyquist bin of an even nfft_eff keep their power.
C21_OnesidedSum ==
  ev.op = "Periodogram" =>
    LET n == ev.nfft_eff
    IN /\ \A k \in 1..(n - 1) : ev.mag2[k] = ev.mag2[n - k]
       /\ SumOver(ev.one, DOMAIN ev.one) = SumOver(ev.two, DOMAIN ev.two)
       /\ DOMAIN ev.two = 0..(n - 1)
       /\ \A k \in DOMAIN ev.one :
            ev.one[k] = IF 1 <= k /\ k <= n \div 2 - 1 THEN 2 * ev.mag2[k] ELSE ev.mag2[k]

\* a periodogram of 8 bins with power in the DC bin, in a doubled bin and in the
\* Nyquist bin
C21_Witness ==
  /\ ev.op = "Periodogram"
  /\ ev.nfft_eff = 8
  /\ ev.mag2[0] = 1 /\ ev.mag2[1] = 1 /\ ev.mag2[4] = 2
  /\ ev.one[1] = 2 /\ ev.one[4] = 2

C23_FoldTerminates ==
  (ev.op = "compute_job" /\ ev.pk.ok) =>
    /\ ev.passes \in 0..1
    /\ ev.phase_diff \in 0..kPi
    /\ ev.phase_diff \in {Abs(ev.pk.P.ph - ev.pk.W.ph), 2 * kPi - Abs(ev.pk.P.ph - ev.pk.W.ph)}

\* phases three quarter turns apart are folded to one quarter turn
C23_Witness ==
  /\ ev.op = "compute_job"
  /\ ev.pk.ok
  /\ ev.pk.P.ph = 0 - 1 /\ ev.pk.W.ph = 2
  /\ ev.passes = 1
  /\ ev.phase_diff = 1

\* the bins of a spectrum of nfft_eff = n points whose period n / k lies in lo..hi
InBand(bins, n, lo, hi) == {k \in 1..Len(bins) : n >= lo * k /\ n <= hi * k}

\* k is the lowest bin of greatest power among cand, or 0 when cand is empty
FirstMax(bins, cand, k) ==
  IF cand = {} THEN k = 0
  ELSE /\ k \in cand
       /\ \A j \in cand : bins[j].pow <= bins[k].pow
       /\ \A j \in cand : bins[j].pow = bins[k].pow => k <= j

\* the peaks pk are those of the spectrum bins for the band lo..hi
PeaksAsClaimed(bins, pk, lo, hi) ==
  LET n == 2 * Len(bins)
  IN /\ FirstMax(bins, InBand(bins, n, lo, hi), pk.k)
     /\ FirstMax(bins, InBand(bins, n, 2, n), pk.kG)
     /\ pk.per = (IF pk.k = 0 THEN 0 ELSE n \div pk.k)
     /\ pk.ph = (IF pk.k = 0 THEN 0 ELSE bins[pk.k].ph)
     /\ pk.perG = (IF pk.kG = 0 THEN 0 ELSE n \div pk.kG)

\* C24: the scan over the bins k >= 1 selects, locally, the lowest bin among those of
\* greatest power whose period lies in min_period..max_period and, globally, the
\* lowest bin of greatest power with period >= 2; when no bin qualifies the period
\* and phase outputs are 0.  Fields 0..3 and 10 of the Result carry these values.
C24_FirstMaxInBand ==
  (ev.op = "compute_job" /\ ev.pk.ok) =>
    /\ PeaksAsClaimed(ev.q.price, ev.pk.P, ev.q.min_period, ev.q.max_period)
    /\ PeaksAsClaimed(ev.q.wave, ev.pk.W, ev.q.min_period, ev.q.max_period)
    /\ ev.res.out[1] = ev.pk.P.per /\ ev.res.out[2] = ev.pk.P.perG
    /\ ev.res.out[3] = ev.pk.W.per /\ ev.res.out[4] = ev.pk.W.perG
    /\ ev.res.out[11] = ev.pk.P.ph

\* price has its greatest power in bin 1, outside the band, and equal power in the
\* bins 3 and 4 of the band: the local peak is bin 3, the global peak bin 1
C24_Witness ==
  /\ ev.op = "compute_job"
  /\ ev.pk.ok
  /\ Len(ev.q.price) = 4
  /\ ev.q.min_period = 2 /\ ev.q.max_period = 3
  /\ ev.q.price[1].pow = 2 /\ ev.q.price[3].pow = 1 /\ ev.q.price[4].pow = 1
  /\ ev.pk.P.k = 3 /\ ev.pk.P.kG = 1

\* C25: for every job, whatever the lengths of price and wave and the integers
\* window_min and window_max, the reducer uses exactly the first
\* W = min(|price|, |wave|, window_max) samples of each series, reads no index outside
\* [0, min(|price|, |wave|)), and aborts with the all-zero result when W < window_min.
C25_WindowSafe ==
  ev.op = "compute_job" =>
    LET N == Min(ev.q.price_len, ev.q.wave_len)
        W == Min(N, ev.q.window_max)
    IN /\ ~terminated
       /\ ev.reads \subseteq 0..(N - 1)
       /\ W < ev.q.window_min => (ev.reads = {} /\ AllZero(ev.res.out))
       /\ W >= ev.q.window_min => ev.reads = 0..(W - 1)

\* entry i of the trace of the last call is the naive DFT
IsDft(i) == ev.trace[i].kernel = "dft_complex"

\* C26 as stated: the naive DFT fallback is invoked only by the scalar path, a
\* non-STFT periodogram with a user-supplied NFFT that is not a power of two; the
\* STFT pipeline uses a power-of-two FFT length and never reaches the fallback.
C26_FallbackOnlyScalar ==
  ev.op = "kernels" =>
    /\ \A i \in 1..Len(ev.trace) :
         IsDft(i) => (ev.api = "periodogram" /\ ev.nfft > 0 /\ ~IsPow2(ev.nfft))
    /\ ev.api = "stft" =>
         \A i \in 1..Len(ev.trace) : ~IsDft(i) /\ IsPow2(ev.trace[i].N)

\* C26: the naive DFT fallback is invoked only by fft_execute_single for the
\* Chebyshev window, on nperseg + 1 points when that is not a power of two, in the
\* periodogram and in the STFT alike; both transform the data with an FFT of length
\* nfft_eff = next_pow2(max(nfft, nperseg)), a power of two, never with the fallback.
C26_FallbackOnlyWindow ==
  ev.op = "kernels" =>
    /\ Len(ev.trace) >= 1
    /\ \A i \in 1..Len(ev.trace) :
         LET e == ev.trace[i]
         IN IF e.for = "window"
              THEN /\ ev.window = "chebwin"
                   /\ e.N = ev.nperseg + 1
                   /\ IsDft(i) <=> ~IsPow2(e.N)
              ELSE /\ i = Len(ev.trace)
                   /\ ~IsDft(i)
                   /\ IsPow2(e.N)
                   /\ e.N >= ev.nperseg /\ e.N >= ev.nfft
                   /\ e.N < 2 * Max(1, Max(ev.nperseg, ev.nfft))
    /\ ev.trace[Len(ev.trace)].for = "data"

\* an STFT with the Chebyshev window of 5 points and nfft = 5: the window is made
\* by the naive DFT of 6 points, the data go through an FFT of 8 points
C26_Witness ==
  /\ ev.op = "kernels"
  /\ ev.api = "stft"
  /\ ev.nfft = 5 /\ ev.nperseg = 5
  /\ Len(ev.trace) = 2
  /\ IsDft(1) /\ ev.trace[1].N = 6
  /\ ~IsDft(2) /\ ev.trace[2].N = 8

\* the work-item writes of pass p that land on element x
Writers(p, x) ==
  {<<g, s>> \in (DOMAIN p.items) \X (1..2) :
     s <= Len(p.items[g].writes) /\ p.items[g].writes[s] = x}

\* the elements pass p reads or writes
Touched(p) ==
  UNION {{p.items[g].reads[s] : s \in 1..Len(p.items[g].reads)} \cup
         {p.items[g].writes[s] : s \in 1..Len(p.items[g].writes)} : g \in DOMAIN p.items}

\* C27: in the bit-reversal pass and in every FFT stage m = 2, 4, ..., N, for N a
\* power of two and any nseg, the work-items write pairwise disjoint elements that
\* cover all nseg * N elements exactly once, read the source buffer and write the
\* other buffer, and out_final is the buffer written last (the bit-reversed buffer
\* when N = 1).
C27_DisjointCover ==
  ev.op = "fft_execute_batch" =>
    LET ps == ev.run.passes
        all == 0..(ev.nseg * ev.N - 1)
    IN /\ Len(ps) = 1 + ilog2_int(ev.N)
       /\ \A i \in 1..Len(ps) :
            /\ ps[i].m = 2^(i - 1)
            /\ \A x \in all : Cardinality(Writers(ps[i], x)) = 1
            /\ Touched(ps[i]) = all
            /\ ps[i].src # ps[i].dst
            /\ {ps[i].src, ps[i].dst} = {"input", "tmp"}
            /\ i > 1 => ps[i].src = ps[i - 1].dst
       /\ ps[1].kernel \in {"bit_reverse", "bit_reverse_batch"}
       /\ ps[1].dst = "tmp"
       /\ ev.run.out_final = ps[Len(ps)].dst

\* a batch of 3 segments of 8 points: bit reversal and three stages, the result in
\* the input buffer
C27_Witness ==
  /\ ev.op = "fft_execute_batch"
  /\ ev.N = 8 /\ ev.nseg = 3
  /\ Len(ev.run.passes) = 4
  /\ ev.run.passes[4].kernel = "fft_stage_batch"
  /\ ev.run.passes[4].items[11].writes = <<19, 23>>
  /\ ev.run.out_final = "input"

\* C28: whenever the mutex is free, every Context has seq = jobs_ok and
\* ring.len = min(jobs_ok, kRingMax), and the seqs in its ring, from front to back,
\* are seq, seq - 1, ..., seq - ring.len + 1.
C28_ContextShape ==
  MuFree =>
    \A key \in DOMAIN g_ctx :
      LET c == g_ctx[key]
      IN /\ c.seq = c.jobs_ok
         /\ Len(c.ring) = Min(c.jobs_ok, kRingMax)
         /\ \A i \in 1..Len(c.ring) : c.ring[i].seq = c.seq - i + 1

\* a Context after more deposits than the ring holds
C28_Witness ==
  /\ MuFree
  /\ \E key \in DOMAIN g_ctx :
       /\ g_ctx[key].jobs_ok = kRingMax + 1
       /\ g_ctx[key].seq = kRingMax + 1
       /\ Len(g_ctx[key].ring) = kRingMax
       /\ g_ctx[key].ring[1].seq = kRingMax + 1
       /\ g_ctx[key].ring[kRingMax].seq = 2

\* jobs a worker has popped and not yet deposited
InFlight == Cardinality({w \in Workers : wpc[w] = "compute"})

\* C29: in every state reached before any Shutdown, the number of Submit calls that
\* returned 1 equals the sum over all keys of jobs_ok, plus the sum over all keys of
\* jobs_drop, plus the queue length, plus the number of jobs popped by the worker but
\* not yet deposited, which is 0 or 1.
C29_Conservation ==
  nshut = 0 =>
    /\ SumOver(accepted, Keys) =
         SumOver(JobsOk, Keys) + SumOver(JobsDrop, Keys) + Len(g_jobs) + InFlight
    /\ InFlight \in 0..1

\* C30: without Shutdown and under a fair scheduler, a job pushed onto the queue is
\* eventually popped by a worker or evicted by backpressure, so no worker waits
\* forever on the condition variable while the queue is non-empty.
C30_EventuallyPopped ==
  \A id \in 1..MaxSubmits : Queued(id) ~> ~Queued(id)
====
